---- MODULE Spec2Model ----
(***************************************************************************)
(* State-machine model of src/apivsk.js: the two exported entry points     *)
(* (handler, pdfHandler), the lazily initialised process-wide YDB driver,  *)
(* the partner OAuth exchange with retry, and the four action handlers.    *)
(* Every await of the source is a point where an invocation waits for an   *)
(* external reply; the code between two awaits runs atomically (one JS     *)
(* event-loop turn) and is one action of the model.                        *)
(***************************************************************************)
EXTENDS Naturals, Integers, Sequences, FiniteSets, TLC

(* ---------------- bounds of the model ---------------- *)
NumInv == 2          \* invocation slots (concurrent or consecutive)
MaxTs  == 1          \* wall-clock values 0..MaxTs seen by new Date()
MaxCovers == 2       \* longest insuredObject.covers array given to buildAccidentRequest

(* ---------------- program constants ---------------- *)
RETRIES       == 3       \* CONFIG.VSK_API.RETRIES
VSK_TIMEOUT   == 20000   \* CONFIG.VSK_API.TIMEOUT
IAM_TIMEOUT   == 2000    \* timeout of the metadata call
READY_TIMEOUT == 5000    \* driverInstance.ready(5000)
BACKOFF_UNIT  == 1000    \* 1000 * (i + 1)
NO_TIMEOUT    == 0       \* axios default when no timeout option is given
DEFAULT_SUM   == 50000   \* Number(c.sumInsured) || 50000

Inv == 1..NumInv

EnvVars == {"YDB_ENDPOINT", "YDB_DATABASE", "VSK_CLIENT_ID", "VSK_CLIENT_SECRET"}

KnownActions == {"calc", "pay", "sample", "pdf"}
\* "" is a present-but-falsy action, "none" an absent one, "frobnicate" an unknown one
ActionValues == KnownActions \cup {"frobnicate", "", "none"}
Premiums == {0, 1500}

VARIABLES
  env,             \* process.env: which variables are set (fixed for the process)
  driverInstance,  \* module-level `let driverInstance`: 0 = undefined, n = n-th Driver built
  driversBuilt,    \* number of `new Driver(...)` evaluations
  iamFetches,      \* number of metadata requests issued by fetchIamToken
  readyOk,         \* drivers whose ready() has resolved true
  clock,           \* wall clock read by new Date()
  calcTable,       \* insurance_calculations, keyed by timestamp
  payTable,        \* insurance_payments, keyed by timestamp
  calcWrites,      \* successful UPSERTs into insurance_calculations
  payWrites,       \* successful UPSERTs into insurance_payments
  objects,         \* object storage: keys written by putObject
  req,             \* one evaluation of buildAccidentRequest: its input and its result
  inv              \* per invocation: position, locals, call log, outcome

vars == <<env, driverInstance, driversBuilt, iamFetches, readyOk, clock,
          calcTable, payTable, calcWrites, payWrites, objects, req, inv>>

globals == <<env, driverInstance, driversBuilt, iamFetches, readyOk, clock,
             calcTable, payTable, calcWrites, payWrites, objects, req>>

(* ---------------- values ---------------- *)
\* An Error object: its message and, for an OAuth failure, the attempt that raised it.
Err(msg, k) == [name |-> msg, attempt |-> k]
NoErr == Err("", 0)

\* 'Не заданы параметры YDB'
MsgYdbParams == "YDB parameters not set"
\* 'Не удалось получить IAM токен автоматически'
MsgIamFailed == "IAM token not obtained"
\* 'PDF не найден в ответе ВСК'
MsgPdfMissing == "PDF missing in VSK response"
\* 'Ошибка при получении PDF'
MsgPdfFetch == "PDF fetch error"

\* covers: 0 = none, i = the insuredObject.covers array of the quote answered to invocation i
NoData == [premium |-> 0, draftId |-> 0, covers |-> 0, policyNumber |-> 0, paymentLink |-> 0]
\* pdf: the response has the headers Content-Type: application/pdf and
\* Content-Disposition: attachment, and the base64 document as its body
NoPayload ==
  [premium |-> 0, requestId |-> 0, covers |-> 0, policyNumber |-> 0, paymentLink |-> 0, pdf |-> FALSE]

\* arguments of the installment PUT: the policy of the URL, the index of the URL, the amount
NoPayReq == [policyNumber |-> 0, installment |-> 0, amount |-> 0]

Pending == [kind |-> "pending", statusCode |-> 0, error |-> NoErr, payload |-> NoPayload]
Response(code, e, p) == [kind |-> "returned", statusCode |-> code, error |-> e, payload |-> p]
Thrown(e) == [kind |-> "thrown", statusCode |-> 0, error |-> e, payload |-> NoPayload]

Fresh ==
  [pc |-> "idle", entry |-> "none", action |-> "none", policy |-> FALSE, wellFormed |-> FALSE,
   attempt |-> 0, delays |-> <<>>, err |-> NoErr, token |-> 0, driver |-> 0,
   data |-> NoData, payReq |-> NoPayReq, ts |-> 0, log |-> <<>>, result |-> Pending]

(* ---------------- inputs ---------------- *)
\* event.body as delivered: absent, or a text that is either JSON or not, plain or base64.
\* text = <<encoding, content>>; content is a parsed body record or "garbage".
Bodies ==
  {[action |-> a, policy |-> FALSE, wellFormed |-> TRUE] : a \in ActionValues \ {"pdf"}}
  \cup {[action |-> "pdf", policy |-> p, wellFormed |-> TRUE] : p \in BOOLEAN}
  \cup {[action |-> a, policy |-> FALSE, wellFormed |-> FALSE] : a \in {"calc", "pay", "sample"}}

Garbage == [action |-> "garbage", policy |-> FALSE, wellFormed |-> FALSE]

Events ==
  {[hasBody |-> FALSE, isBase64Encoded |-> FALSE, encoding |-> "plain", content |-> Garbage]}
  \cup {[hasBody |-> TRUE, isBase64Encoded |-> b, encoding |-> e, content |-> c] :
          b \in BOOLEAN, e \in {"plain", "base64"}, c \in Bodies \cup {Garbage}}

\* Trailing path segment of event.path as a sequence of atoms; ".pdf" is one atom.
Segments == {<<>>, <<".pdf">>, <<"P">>, <<"P", ".pdf">>, <<".pdf", ".pdf">>}

(* ---------------- pure helpers ---------------- *)
NullBody == [action |-> "none", policy |-> FALSE, wellFormed |-> FALSE]

\* Buffer.from(raw, 'base64').toString('utf-8'): yields the original text only when the
\* text really was base64; decoding plain text yields bytes that are not the JSON.
Base64Decode(encoding, content) == IF encoding = "base64" THEN content ELSE Garbage

\* JSON.parse of the text: base64 text left undecoded, or garbage, does not parse.
JsonParses(encoding, content) == encoding = "plain" /\ content # Garbage

parseRequestBody(event) ==
  IF ~event.hasBody THEN NullBody
  ELSE LET enc == IF event.isBase64Encoded
                    THEN "plain"
                    ELSE event.encoding
           raw == IF event.isBase64Encoded
                    THEN Base64Decode(event.encoding, event.content)
                    ELSE event.content
       IN IF JsonParses(enc, raw) THEN raw ELSE NullBody

\* Mutation of ActionMissing: only an absent action is rejected, a falsy one passes.
ActionMissing_onlyAbsent(body) == body.action = "none"

\* !body?.action
ActionMissing(body) == body.action \in {"none", ""}

\* path.split('/').pop().replace('.pdf', ''): the first ".pdf" of the segment is removed.
RECURSIVE StripPdf(_)
StripPdf(seg) ==
  IF seg = <<>> THEN <<>>
  ELSE IF Head(seg) = ".pdf" THEN Tail(seg)
  ELSE <<Head(seg)>> \o StripPdf(Tail(seg))

\* checkEnv(...vars): the first variable of the list that is not set, "" when all are.
RECURSIVE checkEnv(_, _)
checkEnv(e, keys) ==
  IF keys = <<>> THEN ""
  ELSE IF ~e[Head(keys)] THEN Head(keys)
  ELSE checkEnv(e, Tail(keys))

MissingEnvMsg(key) ==
  CASE key = "VSK_CLIENT_ID"     -> "Missing env: VSK_CLIENT_ID"
    [] key = "VSK_CLIENT_SECRET" -> "Missing env: VSK_CLIENT_SECRET"
    [] key = "YDB_ENDPOINT"      -> "Missing env: YDB_ENDPOINT"
    [] key = "YDB_DATABASE"      -> "Missing env: YDB_DATABASE"

\* The timeout option each external call is issued with.
TimeoutOf(call) ==
  CASE call = "iam"       -> IAM_TIMEOUT
    [] call = "ready"     -> READY_TIMEOUT
    [] call \in {"oauth", "quote", "issue", "pay", "doc"} -> VSK_TIMEOUT
    [] call = "legacyPdf" -> NO_TIMEOUT
    [] OTHER              -> NO_TIMEOUT

\* Ways an axios call can settle: a timeout error exists only when a timeout was given.
Settles(call) == IF TimeoutOf(call) > 0 THEN {"ok", "fail", "timeout"} ELSE {"ok", "fail"}

\* access_token handed out by the OAuth endpoint to attempt k of invocation i
TokenOf(i, k) == 10 * i + k

\* UPSERT keyed by the timestamp column
Upsert(table, rec) == {r \in table : r.ts # rec.ts} \cup {rec}

(* ---------------- buildAccidentRequest: the covers ---------------- *)
\* JavaScript values a cover's sumInsured can hold. A string is the sequence of its characters.
Num(n) == [type |-> "number", val |-> n, text |-> <<>>]
NaN == [type |-> "NaN", val |-> 0, text |-> <<>>]
Str(t) == [type |-> "string", val |-> 0, text |-> t]
Null == [type |-> "null", val |-> 0, text |-> <<>>]
Undefined == [type |-> "undefined", val |-> 0, text |-> <<>>]

Digits == <<"0", "1", "2", "3", "4", "5", "6", "7", "8", "9">>
IsDigit(c) == \E d \in 1..Len(Digits) : Digits[d] = c
DigitVal(c) == (CHOOSE d \in 1..Len(Digits) : Digits[d] = c) - 1

\* value of a string of decimal digits, most significant first
RECURSIVE Decimal(_)
Decimal(t) == IF t = <<>> THEN 0 ELSE 10 * Decimal(SubSeq(t, 1, Len(t) - 1)) + DigitVal(t[Len(t)])

\* Number(v): a number is itself, null is 0, undefined is NaN, the empty string is 0,
\* a string of digits is its value, any other string is NaN
Number(v) ==
  CASE v.type = "number"    -> v
    [] v.type = "NaN"       -> NaN
    [] v.type = "null"      -> Num(0)
    [] v.type = "undefined" -> NaN
    [] v.type = "string"    ->
         IF \A k \in 1..Len(v.text) : IsDigit(v.text[k]) THEN Num(Decimal(v.text)) ELSE NaN

\* Mutation of SumOrDefault: `??` in place of `||`, so 0 and NaN are kept.
SumOrDefault_nullish(n) == IF n.type \in {"null", "undefined"} THEN Num(DEFAULT_SUM) ELSE n

\* n || 50000: 0 and NaN are the falsy numbers
SumOrDefault(n) == IF n.type = "NaN" \/ n.val = 0 THEN Num(DEFAULT_SUM) ELSE n

\* input.insuredObject.covers.map(c => ({ sumInsured: Number(c.sumInsured) || 50000 }))
buildAccidentRequest(covers) ==
  [k \in 1..Len(covers) |-> [sumInsured |-> SumOrDefault(Number(covers[k].sumInsured))]]

\* the sums of the product's tiers
Tiers == {50000, 100000, 250000, 500000}
TierText ==
  [t \in Tiers |->
     CASE t = 50000  -> <<"5", "0", "0", "0", "0">>
       [] t = 100000 -> <<"1", "0", "0", "0", "0", "0">>
       [] t = 250000 -> <<"2", "5", "0", "0", "0", "0">>
       [] t = 500000 -> <<"5", "0", "0", "0", "0", "0">>]

\* sumInsured values of a request body: tiers as numbers and as strings, an off-tier number,
\* 0, "0", "", a non-numeric string, null, and an absent property
SumValues ==
  {Num(t) : t \in Tiers} \cup {Str(TierText[t]) : t \in Tiers}
  \cup {Num(0), Num(75000), Str(<<"0">>), Str(<<>>), Str(<<"a", "b", "c">>), Null, Undefined}

RECURSIVE SeqsUpTo(_, _)
SeqsUpTo(S, n) ==
  IF n = 0 THEN {<<>>}
  ELSE LET shorter == SeqsUpTo(S, n - 1)
       IN shorter \cup {Append(q, x) : q \in {p \in shorter : Len(p) = n - 1}, x \in S}

CoverInputs == SeqsUpTo({[sumInsured |-> v] : v \in SumValues}, MaxCovers)

NoReq == [pc |-> "none", covers |-> <<>>, out |-> <<>>]

(* ---------------- building blocks of the handlers ---------------- *)
\* The invocation settles: its locals go out of scope; what remains is the outcome seen by
\* the caller and the record of the calls it made.
Finish(r, res) ==
  [Fresh EXCEPT !.pc = "done", !.entry = r.entry, !.action = r.action, !.policy = r.policy,
                !.wellFormed = r.wellFormed, !.log = r.log, !.result = res]

\* The call is issued and the invocation waits at `at` for it to settle.
Called(r, call, at) == [r EXCEPT !.log = Append(@, [call |-> call, ev |-> "sent"]), !.pc = at]

\* The call settles with res; a timeout is one way of failing.
Settled(r, call, res) ==
  [r EXCEPT !.log = Append(@, [call |-> call, ev |-> IF res = "timeout" THEN "fail" ELSE res])]

\* catch (e) of handler / pdfHandler: { statusCode: 500, body: { error: e.message } }
Caught(r, e) == Finish(r, Response(500, e, NoPayload))

\* Mutation of withSessionRejected: pdfHandler returns the promise without awaiting it too.
withSessionRejected_noAwait(r, e) == Finish(r, Thrown(e))

\* A rejection of the promise returned by withSession. handler returns that promise
\* without awaiting it inside its try block, so its catch never runs and the rejection
\* reaches the caller; pdfHandler uses `return await`, so its catch runs.
withSessionRejected(r, e) ==
  IF r.entry = "handler" THEN Finish(r, Thrown(e)) ELSE Caught(r, e)

\* driver.tableClient.withSession(callback) is called
withSession(r, d) == Called([r EXCEPT !.driver = d], "session", "session_wait")

\* getDriver up to its first await, called from an entry point with locals r
getDriver(i, r) ==
  IF ~env["YDB_ENDPOINT"] \/ ~env["YDB_DATABASE"]
    THEN /\ inv' = [inv EXCEPT ![i] = Caught(r, Err(MsgYdbParams, 0))]
         /\ UNCHANGED globals
    ELSE IF driverInstance = 0
      THEN \* fetchIamToken(): the metadata request is issued
           /\ inv' = [inv EXCEPT ![i] = Called(r, "iam", "iam_wait")]
           /\ iamFetches' = iamFetches + 1
           /\ UNCHANGED <<req, env, driverInstance, driversBuilt, readyOk, clock,
                          calcTable, payTable, calcWrites, payWrites, objects>>
      ELSE /\ inv' = [inv EXCEPT ![i] = withSession(r, driverInstance)]
           /\ UNCHANGED globals

\* Slots are interchangeable; they are taken in order.
CanStart(i) == inv[i].pc = "idle" /\ (IF i = 1 THEN TRUE ELSE inv[i - 1].pc # "idle")

(* ---------------- entry points ---------------- *)
handler(i, event) ==
  /\ CanStart(i)
  /\ LET body == parseRequestBody(event)
         r    == [inv[i] EXCEPT !.entry = "handler", !.action = body.action,
                                 !.policy = body.policy, !.wellFormed = body.wellFormed]
     IN IF ActionMissing(body)
          THEN /\ inv' = [inv EXCEPT ![i] =
                            Finish(r, Response(400, Err("action missing", 0), NoPayload))]
               /\ UNCHANGED globals
          ELSE getDriver(i, r)

pdfHandler(i, seg) ==
  /\ CanStart(i)
  /\ LET policyNumber == StripPdf(seg)
         r == [inv[i] EXCEPT !.entry = "pdfHandler", !.action = "none",
                              !.policy = (policyNumber # <<>>)]
     IN IF policyNumber = <<>>
          THEN /\ inv' = [inv EXCEPT ![i] =
                            Finish(r, Response(400, Err("Policy number is required", 0), NoPayload))]
               /\ UNCHANGED globals
          ELSE getDriver(i, r)

(* ---------------- getDriver after its awaits ---------------- *)
\* Mutation of fetchIamTokenReply: a failed metadata request is repeated once.
fetchIamTokenReply_retry(i, res) ==
  /\ inv[i].pc = "iam_wait"
  /\ IF res = "token"
       THEN /\ driversBuilt' = driversBuilt + 1
            /\ driverInstance' = driversBuilt + 1
            /\ iamFetches' = iamFetches
            /\ inv' = [inv EXCEPT ![i] =
                         Called(Called([Settled(@, "iam", res) EXCEPT !.driver = driversBuilt + 1],
                                       "driver", "iam_wait"),
                                "ready", "ready_wait")]
       ELSE IF Len(inv[i].log) < 2
         THEN /\ inv' = [inv EXCEPT ![i] = Called(Settled(@, "iam", res), "iam", "iam_wait")]
              /\ iamFetches' = iamFetches + 1
              /\ UNCHANGED <<driverInstance, driversBuilt>>
         ELSE /\ inv' = [inv EXCEPT ![i] = Caught(Settled(@, "iam", res), Err(MsgIamFailed, 0))]
              /\ UNCHANGED <<driverInstance, driversBuilt, iamFetches>>
  /\ UNCHANGED <<req, env, readyOk, clock, calcTable, payTable, calcWrites, payWrites, objects>>

\* fetchIamToken settles; on a token getDriver builds the Driver, stores it in
\* driverInstance and calls ready() on it.
fetchIamTokenReply(i, res) ==
  /\ inv[i].pc = "iam_wait"
  /\ IF res = "token"
       THEN /\ driversBuilt' = driversBuilt + 1
            /\ driverInstance' = driversBuilt + 1
            /\ inv' = [inv EXCEPT ![i] =
                         Called(Called([Settled(@, "iam", res) EXCEPT !.driver = driversBuilt + 1],
                                       "driver", "iam_wait"),
                                "ready", "ready_wait")]
            /\ UNCHANGED <<req, env, iamFetches, readyOk, clock, calcTable, payTable,
                           calcWrites, payWrites, objects>>
       ELSE \* empty response, network error or timeout: all rethrown as one new Error
            /\ inv' = [inv EXCEPT ![i] = Caught(Settled(@, "iam", res), Err(MsgIamFailed, 0))]
            /\ UNCHANGED globals

\* driverInstance.ready(5000) settles: true, false (not ready within the timeout) or a throw
driverReadyReply(i, res) ==
  /\ inv[i].pc = "ready_wait"
  /\ CASE res = "true" ->
            /\ readyOk' = readyOk \cup {inv[i].driver}
            /\ inv' = [inv EXCEPT ![i] = withSession(Settled(@, "ready", res), driverInstance)]
            /\ UNCHANGED <<req, env, driverInstance, driversBuilt, iamFetches, clock,
                           calcTable, payTable, calcWrites, payWrites, objects>>
       [] res = "false" ->
            /\ inv' = [inv EXCEPT ![i] = Caught(Settled(@, "ready", res), Err("YDB not ready", 0))]
            /\ UNCHANGED globals
       [] res = "throws" ->
            /\ inv' = [inv EXCEPT ![i] = Caught(Settled(@, "ready", res), Err("driver error", 0))]
            /\ UNCHANGED globals

(* ---------------- getVskToken ---------------- *)
\* One pass of the retry loop up to axios.post: attempt k = loop index k - 1
vskTokenAttempt(r) == Called([r EXCEPT !.attempt = @ + 1, !.err = NoErr], "oauth", "oauth_wait")

(* ---------------- the action handlers up to their first await ---------------- *)
\* buildAccidentRequest dereferences input.policyHolder.person and insuredObject.covers
buildAccidentRequestThrows(r) == ~r.wellFormed

handleCalc(r) ==
  IF buildAccidentRequestThrows(r) THEN withSessionRejected(r, Err("TypeError", 0))
  ELSE Called(r, "quote", "quote_wait")

handlePay(r) ==
  IF buildAccidentRequestThrows(r) THEN withSessionRejected(r, Err("TypeError", 0))
  ELSE Called(r, "issue", "issue_wait")

\* handleSample starts with handleCreatePolicy
handleSample(r) ==
  IF buildAccidentRequestThrows(r) THEN withSessionRejected(r, Err("TypeError", 0))
  ELSE Called(r, "issue", "create_wait")

\* Mutation of handlePdf: the presence check of body.policy is missing.
handlePdf_noCheck(r) == Called(r, "legacyPdf", "legacy_wait")

handlePdf(r) ==
  IF ~r.policy THEN Finish(r, Response(400, Err("policy missing", 0), NoPayload))
  ELSE Called(r, "legacyPdf", "legacy_wait")

\* body of the withSession callback after the token is obtained
dispatch(r) ==
  IF r.entry = "pdfHandler" THEN Called(r, "doc", "pdfdoc_wait")
  ELSE CASE r.action = "calc"   -> handleCalc(r)
         [] r.action = "pay"    -> handlePay(r)
         [] r.action = "sample" -> handleSample(r)
         [] r.action = "pdf"    -> handlePdf(r)
         [] OTHER -> Finish(r, Response(400, Err("Unknown action", 0), NoPayload))

\* Mutation of getVskToken: a token another invocation holds is taken from a shared cache.
getVskToken_cached(r) ==
  LET missing == checkEnv(env, <<"VSK_CLIENT_ID", "VSK_CLIENT_SECRET">>)
  IN IF missing # "" THEN withSessionRejected(r, Err(MissingEnvMsg(missing), 0))
     ELSE IF \E j \in Inv : inv[j].token # 0
       THEN dispatch([r EXCEPT !.token = inv[CHOOSE j \in Inv : inv[j].token # 0].token])
     ELSE IF 0 < RETRIES THEN vskTokenAttempt(r)
     ELSE dispatch(r)

\* getVskToken up to its first await: checkEnv, then the first OAuth request
getVskToken(r) ==
  LET missing == checkEnv(env, <<"VSK_CLIENT_ID", "VSK_CLIENT_SECRET">>)
  IN IF missing # "" THEN withSessionRejected(r, Err(MissingEnvMsg(missing), 0))
     ELSE IF 0 < RETRIES THEN vskTokenAttempt(r)
     ELSE dispatch(r)   \* the loop body never runs: the token is undefined

\* withSession obtains a session and runs the callback, whose first statement is getVskToken()
withSessionReply(i, res) ==
  /\ inv[i].pc = "session_wait"
  /\ inv' = [inv EXCEPT ![i] =
               IF res = "ok" THEN getVskToken(Settled(@, "session", res))
               ELSE withSessionRejected(Settled(@, "session", res), Err("session failed", 0))]
  /\ UNCHANGED globals

\* Mutation of vskTokenCatch: the backoff does not grow with the attempt.
vskTokenCatch_flatDelay(r, e) ==
  IF r.attempt - 1 = RETRIES - 1 THEN withSessionRejected(r, e)
  ELSE [r EXCEPT !.err = e, !.delays = Append(@, BACKOFF_UNIT), !.pc = "backoff"]

\* Mutation of vskTokenCatch: a new generic error is thrown in place of the caught one.
vskTokenCatch_wrapped(r, e) ==
  IF r.attempt - 1 = RETRIES - 1 THEN withSessionRejected(r, Err("token not obtained", 0))
  ELSE [r EXCEPT !.err = e, !.delays = Append(@, BACKOFF_UNIT * r.attempt), !.pc = "backoff"]

\* catch block of the retry loop, for the error err of attempt r.attempt
vskTokenCatch(r, e) ==
  IF r.attempt - 1 = RETRIES - 1 THEN withSessionRejected(r, e)
  ELSE [r EXCEPT !.err = e, !.delays = Append(@, BACKOFF_UNIT * r.attempt), !.pc = "backoff"]

\* the OAuth request settles
vskTokenReply(i, res) ==
  /\ inv[i].pc = "oauth_wait"
  /\ inv' = [inv EXCEPT ![i] =
               IF res = "ok"
                 THEN dispatch([Settled(@, "oauth", res) EXCEPT !.token = TokenOf(i, inv[i].attempt)])
                 ELSE vskTokenCatch(Settled(@, "oauth", res), Err("oauth failed", @.attempt))]
  /\ UNCHANGED globals

\* setTimeout(r, 1000 * (i + 1)) fires; the loop goes round
backoffElapsed(i) ==
  /\ inv[i].pc = "backoff"
  /\ inv' = [inv EXCEPT ![i] =
               IF @.attempt < RETRIES THEN vskTokenAttempt(@)
               ELSE dispatch(@)]
  /\ UNCHANGED globals

(* ---------------- handleCalc ---------------- *)
\* Mutation of quoteReply: the failure of the quote call is swallowed and the row written.
quoteReply_recordAnyway(i, res, premium, now) ==
  /\ inv[i].pc = "quote_wait"
  /\ now >= clock
  /\ clock' = now
  /\ inv' = [inv EXCEPT ![i] =
               Called([Settled(@, "quote", res) EXCEPT
                         !.data.premium = premium, !.data.draftId = i,
                                   !.data.covers = i, !.ts = now],
                      "dbCalc", "calc_write")]
  /\ UNCHANGED <<req, env, driverInstance, driversBuilt, iamFetches, readyOk,
                 calcTable, payTable, calcWrites, payWrites, objects>>

\* the quote call settles; on success the UPSERT is issued with $ts = new Date()
quoteReply(i, res, premium, now) ==
  /\ inv[i].pc = "quote_wait"
  /\ IF res = "ok"
       THEN /\ now >= clock
            /\ clock' = now
            /\ inv' = [inv EXCEPT ![i] =
                         Called([Settled(@, "quote", res) EXCEPT
                                   !.data.premium = premium, !.data.draftId = i,
                                   !.data.covers = i, !.ts = now],
                                "dbCalc", "calc_write")]
       ELSE /\ now = clock
            /\ premium = 0
            /\ clock' = clock
            /\ inv' = [inv EXCEPT ![i] = withSessionRejected(Settled(@, "quote", res), Err("quote failed", 0))]
  /\ UNCHANGED <<req, env, driverInstance, driversBuilt, iamFetches, readyOk,
                 calcTable, payTable, calcWrites, payWrites, objects>>

\* Mutation of handleCalcAfterWrite: the write error is swallowed and the premium returned.
handleCalcAfterWrite_swallow(r, res) ==
  Finish(r, Response(200, NoErr,
           [NoPayload EXCEPT !.premium = r.data.premium, !.requestId = r.data.draftId,
                             !.covers = r.data.covers]))

\* Mutation of handleCalcAfterWrite: requestId is read from a field the quote does not have.
handleCalcAfterWrite_wrongId(r, res) ==
  IF res = "ok"
    THEN Finish(r, Response(200, NoErr,
                  [NoPayload EXCEPT !.premium = r.data.premium, !.requestId = r.data.policyNumber,
                                    !.covers = r.data.covers]))
    ELSE withSessionRejected(r, Err("db write failed", 0))

\* what handleCalc does once session.executeQuery has settled
handleCalcAfterWrite(r, res) ==
  IF res = "ok"
    THEN Finish(r, Response(200, NoErr,
                  [NoPayload EXCEPT !.premium = r.data.premium, !.requestId = r.data.draftId,
                                    !.covers = r.data.covers]))
    ELSE withSessionRejected(r, Err("db write failed", 0))

calcWriteReply(i, res) ==
  /\ inv[i].pc = "calc_write"
  /\ inv' = [inv EXCEPT ![i] = handleCalcAfterWrite(Settled(@, "dbCalc", res), res)]
  /\ IF res = "ok"
       THEN /\ calcTable' = Upsert(calcTable, [ts |-> inv[i].ts, inv |-> i,
                                               price |-> inv[i].data.premium])
            /\ calcWrites' = calcWrites + 1
       ELSE UNCHANGED <<calcTable, calcWrites>>
  /\ UNCHANGED <<req, env, driverInstance, driversBuilt, iamFetches, readyOk, clock,
                 payTable, payWrites, objects>>

(* ---------------- handlePay ---------------- *)
\* Mutation of payInstallmentRequest: the URL is built from a field the policy does not have.
payInstallmentRequest_draft(policy) ==
  [policyNumber |-> policy.draftId, installment |-> 1, amount |-> policy.premium]

\* `${base}/${policy.policyNumber}/installments/1` with { amount: policy.premium, ... }
payInstallmentRequest(policy) ==
  [policyNumber |-> policy.policyNumber, installment |-> 1, amount |-> policy.premium]

\* the issue-policy call settles; on success the installment PUT is issued
issueReply(i, res, premium) ==
  /\ inv[i].pc = "issue_wait"
  /\ inv' = [inv EXCEPT ![i] =
               IF res = "ok"
                 THEN Called([Settled(@, "issue", res) EXCEPT
                                !.data.premium = premium, !.data.policyNumber = i,
                                !.payReq = payInstallmentRequest(
                                             [inv[i].data EXCEPT !.premium = premium,
                                                                 !.policyNumber = i])],
                             "pay", "pay_wait")
                 ELSE withSessionRejected(Settled(@, "issue", res), Err("issue failed", 0))]
  /\ res # "ok" => premium = 0
  /\ UNCHANGED globals

\* the installment call settles; on success the UPSERT is issued with $ts = new Date()
payInstallmentReply(i, res, now) ==
  /\ inv[i].pc = "pay_wait"
  /\ IF res = "ok"
       THEN /\ now >= clock
            /\ clock' = now
            /\ inv' = [inv EXCEPT ![i] =
                         Called([Settled(@, "pay", res) EXCEPT !.data.paymentLink = i, !.ts = now],
                                "dbPay", "pay_write")]
       ELSE /\ now = clock
            /\ clock' = clock
            /\ inv' = [inv EXCEPT ![i] = withSessionRejected(Settled(@, "pay", res), Err("pay failed", 0))]
  /\ UNCHANGED <<req, env, driverInstance, driversBuilt, iamFetches, readyOk,
                 calcTable, payTable, calcWrites, payWrites, objects>>

handlePayAfterWrite(r, res) ==
  IF res = "ok"
    THEN Finish(r, Response(200, NoErr,
                  [NoPayload EXCEPT !.premium = r.data.premium,
                                    !.policyNumber = r.data.policyNumber,
                                    !.paymentLink = r.data.paymentLink]))
    ELSE withSessionRejected(r, Err("db write failed", 0))

payWriteReply(i, res) ==
  /\ inv[i].pc = "pay_write"
  /\ inv' = [inv EXCEPT ![i] = handlePayAfterWrite(Settled(@, "dbPay", res), res)]
  /\ IF res = "ok"
       THEN /\ payTable' = Upsert(payTable, [ts |-> inv[i].ts, inv |-> i,
                                             policyNumber |-> inv[i].data.policyNumber,
                                             premium |-> inv[i].data.premium,
                                             paymentLink |-> inv[i].data.paymentLink])
            /\ payWrites' = payWrites + 1
       ELSE UNCHANGED <<payTable, payWrites>>
  /\ UNCHANGED <<req, env, driverInstance, driversBuilt, iamFetches, readyOk, clock,
                 calcTable, calcWrites, objects>>

(* ---------------- handleSample ---------------- *)
\* handleCreatePolicy's call settles; on success the document GET is issued
createPolicyReply(i, res, premium) ==
  /\ inv[i].pc = "create_wait"
  /\ inv' = [inv EXCEPT ![i] =
               IF res = "ok"
                 THEN Called([Settled(@, "issue", res) EXCEPT
                                !.data.premium = premium, !.data.policyNumber = i],
                             "doc", "doc_wait")
                 ELSE withSessionRejected(Settled(@, "issue", res), Err("issue failed", 0))]
  /\ res # "ok" => premium = 0
  /\ UNCHANGED globals

\* Mutation of sampleDocReply: the policyPDF check comes after the upload, not before it.
sampleDocReply_uploadFirst(i, res) ==
  /\ inv[i].pc = "doc_wait"
  /\ inv' = [inv EXCEPT ![i] =
               CASE res \in {"ok", "nopdf"} -> Called(Settled(@, "doc", res), "putObject", "put_wait")
                 [] OTHER -> withSessionRejected(Settled(@, "doc", res), Err("doc failed", 0))]
  /\ UNCHANGED globals

\* the document GET settles: with a policyPDF, without one, or with an error
sampleDocReply(i, res) ==
  /\ inv[i].pc = "doc_wait"
  /\ inv' = [inv EXCEPT ![i] =
               CASE res = "ok"    -> Called(Settled(@, "doc", res), "putObject", "put_wait")
                 [] res = "nopdf" -> withSessionRejected(Settled(@, "doc", res), Err(MsgPdfMissing, 0))
                 [] OTHER         -> withSessionRejected(Settled(@, "doc", res), Err("doc failed", 0))]
  /\ UNCHANGED globals

\* s3.putObject settles; on success getSignedUrl is computed and the response built
putObjectReply(i, res) ==
  /\ inv[i].pc = "put_wait"
  /\ IF res = "ok"
       THEN /\ objects' = objects \cup {inv[i].data.policyNumber}
            /\ inv' = [inv EXCEPT ![i] =
                         Finish(Called(Settled(@, "putObject", res), "signUrl", "put_wait"),
                                Response(200, NoErr,
                                  [NoPayload EXCEPT !.premium = inv[i].data.premium,
                                                    !.policyNumber = inv[i].data.policyNumber]))]
       ELSE /\ objects' = objects
            /\ inv' = [inv EXCEPT ![i] = withSessionRejected(Settled(@, "putObject", res), Err("storage failed", 0))]
  /\ UNCHANGED <<req, env, driverInstance, driversBuilt, iamFetches, readyOk, clock,
                 calcTable, payTable, calcWrites, payWrites>>

(* ---------------- handlePdf and pdfHandler ---------------- *)
\* the legacy-endpoint GET settles; handlePdf catches its error itself
legacyPdfReply(i, res) ==
  /\ inv[i].pc = "legacy_wait"
  /\ inv' = [inv EXCEPT ![i] =
               IF res = "ok"
                 THEN Finish(Settled(@, "legacyPdf", res),
                             Response(200, NoErr, [NoPayload EXCEPT !.pdf = TRUE]))
                 ELSE Finish(Settled(@, "legacyPdf", res),
                             Response(500, Err(MsgPdfFetch, 0), NoPayload))]
  /\ UNCHANGED globals

\* pdfHandler's document GET settles
pdfHandlerDocReply(i, res) ==
  /\ inv[i].pc = "pdfdoc_wait"
  /\ inv' = [inv EXCEPT ![i] =
               CASE res = "ok"    -> Finish(Settled(@, "doc", res),
                                            Response(200, NoErr, [NoPayload EXCEPT !.pdf = TRUE]))
                 [] res = "nopdf" -> Finish(Settled(@, "doc", res),
                                            Response(404, Err("PDF not found", 0), NoPayload))
                 [] OTHER         -> withSessionRejected(Settled(@, "doc", res), Err("doc failed", 0))]
  /\ UNCHANGED globals

(* ---------------- specification ---------------- *)
Init ==
  /\ env \in [EnvVars -> BOOLEAN]
  /\ driverInstance = 0
  /\ driversBuilt = 0
  /\ iamFetches = 0
  /\ readyOk = {}
  /\ clock = 0
  /\ calcTable = {}
  /\ payTable = {}
  /\ calcWrites = 0
  /\ payWrites = 0
  /\ objects = {}
  /\ req = NoReq
  /\ inv = [i \in Inv |-> Fresh]

Next ==
  \E i \in Inv :
    \/ \E event \in Events : handler(i, event)
    \/ \E seg \in Segments : pdfHandler(i, seg)
    \/ \E res \in (Settles("iam") \ {"ok"}) \cup {"token", "empty"} : fetchIamTokenReply(i, res)
    \/ \E res \in {"true", "false", "throws"} : driverReadyReply(i, res)
    \/ \E res \in {"ok", "fail"} : withSessionReply(i, res)
    \/ \E res \in Settles("oauth") : vskTokenReply(i, res)
    \/ backoffElapsed(i)
    \/ \E res \in Settles("quote"), p \in Premiums, now \in 0..MaxTs : quoteReply(i, res, p, now)
    \/ \E res \in {"ok", "fail"} : calcWriteReply(i, res)
    \/ \E res \in Settles("issue"), p \in Premiums : issueReply(i, res, p)
    \/ \E res \in Settles("pay"), now \in 0..MaxTs : payInstallmentReply(i, res, now)
    \/ \E res \in {"ok", "fail"} : payWriteReply(i, res)
    \/ \E res \in Settles("issue"), p \in Premiums : createPolicyReply(i, res, p)
    \/ \E res \in Settles("doc") \cup {"nopdf"} : sampleDocReply(i, res)
    \/ \E res \in {"ok", "fail"} : putObjectReply(i, res)
    \/ \E res \in Settles("legacyPdf") : legacyPdfReply(i, res)
    \/ \E res \in Settles("doc") \cup {"nopdf"} : pdfHandlerDocReply(i, res)

Spec == Init /\ [][Next]_vars

(* ---------------- buildAccidentRequest on its own ---------------- *)
\* A configured process in which one request body with a covers array is at hand.
CoverInit ==
  /\ env = [v \in EnvVars |-> TRUE]
  /\ driverInstance = 0
  /\ driversBuilt = 0
  /\ iamFetches = 0
  /\ readyOk = {}
  /\ clock = 0
  /\ calcTable = {}
  /\ payTable = {}
  /\ calcWrites = 0
  /\ payWrites = 0
  /\ objects = {}
  /\ req \in {[pc |-> "input", covers |-> c, out |-> <<>>] : c \in CoverInputs}
  /\ inv = [i \in Inv |-> Fresh]

\* the function is applied to the body
BuildRequest ==
  /\ req.pc = "input"
  /\ req' = [req EXCEPT !.pc = "built", !.out = buildAccidentRequest(req.covers)]
  /\ UNCHANGED <<env, driverInstance, driversBuilt, iamFetches, readyOk, clock,
                 calcTable, payTable, calcWrites, payWrites, objects, inv>>

CoverNext == BuildRequest

CoverSpec == CoverInit /\ [][CoverNext]_vars

(* ---------------- scheduling ---------------- *)
\* The timer of a call issued with a timeout option fires when no reply came first:
\* axios then rejects the call; ready(5000) resolves false.
TimeoutExpiry(i) ==
  \/ "timeout" \in Settles("iam")       /\ fetchIamTokenReply(i, "timeout")
  \/ TimeoutOf("ready") > 0             /\ driverReadyReply(i, "false")
  \/ "timeout" \in Settles("oauth")     /\ vskTokenReply(i, "timeout")
  \/ "timeout" \in Settles("quote")     /\ quoteReply(i, "timeout", 0, clock)
  \/ "timeout" \in Settles("issue")     /\ issueReply(i, "timeout", 0)
  \/ "timeout" \in Settles("pay")       /\ payInstallmentReply(i, "timeout", clock)
  \/ "timeout" \in Settles("issue")     /\ createPolicyReply(i, "timeout", 0)
  \/ "timeout" \in Settles("doc")       /\ sampleDocReply(i, "timeout")
  \/ "timeout" \in Settles("legacyPdf") /\ legacyPdfReply(i, "timeout")
  \/ "timeout" \in Settles("doc")       /\ pdfHandlerDocReply(i, "timeout")

\* The backoff timer, the database and the object storage always settle.
LocalSettles(i) ==
  \/ backoffElapsed(i)
  \/ \E res \in {"ok", "fail"} : withSessionReply(i, res)
  \/ \E res \in {"ok", "fail"} : calcWriteReply(i, res)
  \/ \E res \in {"ok", "fail"} : payWriteReply(i, res)
  \/ \E res \in {"ok", "fail"} : putObjectReply(i, res)

\* Spec with the fairness the event loop gives: a due timer fires, a settled promise resumes.
FairSpec ==
  Spec /\ \A i \in Inv : WF_vars(TimeoutExpiry(i)) /\ WF_vars(LocalSettles(i))

Started(i) == inv[i].pc # "idle"
Done(i) == inv[i].pc = "done"

\* C9: every invocation of calc, pay, sample or pdf eventually terminates with a response,
\* even when the upstream endpoint never answers, because every call carries a timeout.
C9_EveryInvocationTerminates ==
  \A i \in Inv :
    (inv[i].entry = "handler" /\ inv[i].action \in KnownActions) ~> Done(i)

(* ---------------- reading the call log ---------------- *)
Has(log, call, ev) == \E k \in 1..Len(log) : log[k] = [call |-> call, ev |-> ev]
Count(log, call, ev) == Cardinality({k \in 1..Len(log) : log[k] = [call |-> call, ev |-> ev]})
\* some entry (call, ev1) comes before some entry (call2, ev2)
Before(log, c1, e1, c2, e2) ==
  \E a, b \in 1..Len(log) :
    a < b /\ log[a] = [call |-> c1, ev |-> e1] /\ log[b] = [call |-> c2, ev |-> e2]
\* calls that leave the process
NoExternalCall(log) == \A k \in 1..Len(log) : log[k].ev # "sent"
PartnerApiCalls == {"quote", "issue", "pay", "doc", "legacyPdf"}
AnyEnvMissing == \E v \in EnvVars : ~env[v]

(* ======================= claims ======================= *)

\* C1: when all invocations are inside getDriver at once in a fresh process (none has got
\* past the initialisation), the metadata token was fetched at most once and at most one
\* Driver was constructed. (Stated for the fully configured process.)
C1_SingleInitialisation ==
  (~AnyEnvMissing /\ \A i \in Inv : inv[i].pc \in {"iam_wait", "ready_wait"})
    => (iamFetches <= 1 /\ driversBuilt <= 1)

\* C2: a handler invocation with an action outside calc, pay, sample, pdf makes no external
\* call and persists nothing, and it ends with 400 {error: "Unknown action"}.
\* (Stated for the fully configured process.)
C2_UnknownActionNoCalls ==
  \A i \in Inv :
    (~AnyEnvMissing /\ inv[i].entry = "handler" /\ inv[i].action = "frobnicate")
      => /\ NoExternalCall(inv[i].log)
         /\ \A rec \in calcTable \cup payTable : rec.inv # i
         /\ Done(i) => inv[i].result = Response(400, Err("Unknown action", 0), NoPayload)

\* C3: a calc invocation whose quote call succeeded and whose database write failed does
\* not end with a statusCode 200 response.
C3_CalcWriteFailureIsFailure ==
  \A i \in Inv :
    (Has(inv[i].log, "quote", "ok") /\ Has(inv[i].log, "dbCalc", "fail"))
      => /\ Done(i)
         /\ ~(inv[i].result.kind = "returned" /\ inv[i].result.statusCode = 200)

C3_Witness ==
  \E i \in Inv :
    /\ Done(i) /\ inv[i].action = "calc"
    /\ Has(inv[i].log, "quote", "ok") /\ Has(inv[i].log, "dbCalc", "fail")
    /\ inv[i].result.error = Err("db write failed", 0)

\* C4: a handler invocation with a present action never ends by throwing to its caller:
\* every error after the action check becomes a returned {statusCode: 500, body: {error}}.
\* (Stated for the fully configured process.)
C4_HandlerNeverThrows ==
  \A i \in Inv :
    (~AnyEnvMissing /\ Done(i) /\ inv[i].entry = "handler")
      => /\ inv[i].result.kind = "returned"
         /\ inv[i].result.error.name \notin {"", "action missing", "Unknown action",
                                              "policy missing", MsgPdfFetch}
              => inv[i].result.statusCode = 500

\* C5: the OAuth exchange is tried at most RETRIES times; after k - 1 failures and a success
\* exactly k attempts were made, the sleep after failed attempt j was j seconds, nothing
\* is tried after the success, and the token in use is the one attempt k returned.
C5_TokenRetry ==
  \A i \in Inv :
    LET r     == inv[i]
        sent  == Count(r.log, "oauth", "sent")
        fails == Count(r.log, "oauth", "fail")
        oks   == Count(r.log, "oauth", "ok")
    IN /\ sent <= RETRIES
       /\ oks <= 1
       /\ oks = 1 => /\ sent = fails + 1
                     /\ \A a, b \in 1..Len(r.log) :
                          (a < b /\ r.log[a] = [call |-> "oauth", ev |-> "ok"])
                            => r.log[b].call # "oauth"
       /\ r.pc \notin {"idle", "done"}
            => /\ r.attempt = sent
               /\ r.delays = [j \in 1..fails |-> 1000 * j]
               /\ oks = 1 => r.token = TokenOf(i, fails + 1)
               /\ oks = 0 => r.token = 0

C5_Witness ==
  \E i \in Inv :
    /\ inv[i].pc = "quote_wait"
    /\ Count(inv[i].log, "oauth", "sent") = 3
    /\ inv[i].token = TokenOf(i, 3)
    /\ inv[i].delays = <<1000, 2000>>

\* C6: when all RETRIES OAuth attempts have failed, the invocation is over with exactly the
\* error of the last attempt (no earlier one, no wrapper), and no token was ever returned:
\* nothing was done after the last failure.
C6_LastErrorRethrown ==
  \A i \in Inv :
    Count(inv[i].log, "oauth", "fail") = RETRIES
      => /\ Done(i)
         /\ inv[i].result.error = Err("oauth failed", RETRIES)
         /\ inv[i].result.statusCode # 200
         /\ inv[i].log[Len(inv[i].log)] = [call |-> "oauth", ev |-> "fail"]
         /\ ~Has(inv[i].log, "oauth", "ok")

C6_Witness ==
  \E i \in Inv :
    /\ Done(i)
    /\ Count(inv[i].log, "oauth", "fail") = 3
    /\ inv[i].result = Thrown(Err("oauth failed", 3))

\* C7: a row of insurance_calculations was written after a successful quote of the writing
\* invocation, a row of insurance_payments after a successful issuePolicy and a successful
\* payInstallment of the writing invocation; an invocation one of whose partner calls
\* failed issues no write and owns no row.
C7_RecordOnlyAfterSuccess ==
  /\ \A rec \in calcTable :
       Before(inv[rec.inv].log, "quote", "ok", "dbCalc", "sent")
  /\ \A rec \in payTable :
       /\ Before(inv[rec.inv].log, "issue", "ok", "pay", "sent")
       /\ Before(inv[rec.inv].log, "pay", "ok", "dbPay", "sent")
  /\ \A i \in Inv :
       (\E c \in PartnerApiCalls : Has(inv[i].log, c, "fail"))
         => /\ ~Has(inv[i].log, "dbCalc", "sent") /\ ~Has(inv[i].log, "dbPay", "sent")
            /\ \A rec \in calcTable \cup payTable : rec.inv # i

C7_Witness ==
  \E i, j \in Inv :
    /\ \E rec \in payTable : rec.inv = i
    /\ Done(j) /\ Has(inv[j].log, "issue", "ok") /\ Has(inv[j].log, "pay", "fail")

\* C8: with a required configuration variable missing, an invocation that needs the
\* configuration makes no external call, and it fails with an error about the missing
\* configuration.
C8_ConfigFailsFast ==
  \A i \in Inv :
    AnyEnvMissing
      => /\ NoExternalCall(inv[i].log)
         /\ (Done(i) /\ inv[i].result.statusCode # 400)
              => inv[i].result.error.name \in
                   {MsgYdbParams} \cup {MissingEnvMsg(v) : v \in {w \in EnvVars : ~env[w]}}

\* C10 as claimed: a pdf action without a policy identifier always ends with
\* 400 {error: "policy missing"} and never calls the document endpoint.
\* (Stated for the fully configured process.)
C10_PdfNoPolicyAlways400 ==
  \A i \in Inv :
    (~AnyEnvMissing /\ inv[i].entry = "handler" /\ inv[i].action = "pdf" /\ ~inv[i].policy)
      => /\ ~Has(inv[i].log, "legacyPdf", "sent")
         /\ Done(i) => inv[i].result = Response(400, Err("policy missing", 0), NoPayload)

\* C10 amended: a pdf action without a policy identifier never calls the document endpoint
\* and never ends with 200; once the driver, the session and the partner token were
\* obtained it ends with 400 {error: "policy missing"}.
C10_PdfNoPolicy ==
  \A i \in Inv :
    (inv[i].entry = "handler" /\ inv[i].action = "pdf" /\ ~inv[i].policy)
      => /\ ~Has(inv[i].log, "legacyPdf", "sent")
         /\ inv[i].result.statusCode # 200
         /\ Has(inv[i].log, "oauth", "ok")
              => /\ Done(i)
                 /\ inv[i].result = Response(400, Err("policy missing", 0), NoPayload)

C10_Witness ==
  \E i \in Inv :
    /\ inv[i].entry = "handler" /\ inv[i].action = "pdf" /\ ~inv[i].policy
    /\ Has(inv[i].log, "oauth", "ok")
    /\ inv[i].result = Response(400, Err("policy missing", 0), NoPayload)

\* C11: a handler invocation whose event has no body, a body that does not parse as JSON,
\* or a parsed body with an absent or falsy action returns 400 {error: "action missing"} in
\* its first step: no credential is acquired, no session opened, no partner call made, and
\* the process-wide state (the cached driver included) is left as it was.
C11_ActionMissingFirst ==
  [][\A i \in Inv : \A event \in Events :
       LET unparseable == \/ event.content = Garbage
                          \/ event.isBase64Encoded /\ event.encoding = "plain"
                          \/ ~event.isBase64Encoded /\ event.encoding = "base64"
           noAction == event.content.action \in {"none", ""}
       IN (handler(i, event) /\ (~event.hasBody \/ unparseable \/ noAction))
            => /\ inv'[i].pc = "done"
               /\ inv'[i].result = Response(400, Err("action missing", 0), NoPayload)
               /\ inv'[i].log = <<>>
               /\ UNCHANGED globals]_vars

C11_Witness ==
  \E i, j \in Inv :
    /\ driverInstance # 0 /\ Done(j) /\ inv[j].entry = "handler" /\ inv[j].driver = 0
    /\ Has(inv[j].log, "ready", "true")
    /\ Done(i) /\ inv[i].entry = "handler" /\ inv[i].action = ""
    /\ inv[i].result = Response(400, Err("action missing", 0), NoPayload)
    /\ inv[i].log = <<>>

\* C12: a calc invocation ends with statusCode 200 only in the step in which its UPSERT into
\* insurance_calculations succeeds; it has then issued exactly one write to that table and
\* none to insurance_payments, and the response carries the premium, the draftId (as
\* requestId) and the covers its own quote call returned.
C12_CalcOneWriteAndEcho ==
  [][\A i \in Inv :
       (inv[i].pc # "done" /\ inv'[i].pc = "done" /\ inv'[i].action = "calc"
          /\ inv'[i].result.statusCode = 200)
         => /\ inv[i].pc = "calc_write"
            /\ calcWrites' = calcWrites + 1
            /\ payWrites' = payWrites /\ payTable' = payTable
            /\ Count(inv'[i].log, "dbCalc", "sent") = 1
            /\ Count(inv'[i].log, "dbCalc", "ok") = 1
            /\ ~Has(inv'[i].log, "dbPay", "sent")
            /\ Count(inv'[i].log, "quote", "sent") = 1
            /\ Before(inv'[i].log, "quote", "ok", "dbCalc", "sent")
            /\ inv[i].data.draftId = i /\ inv[i].data.covers = i
            /\ inv'[i].result.payload =
                 [NoPayload EXCEPT !.premium = inv[i].data.premium,
                                   !.requestId = inv[i].data.draftId,
                                   !.covers = inv[i].data.covers]
            /\ \E rec \in calcTable' :
                 rec = [ts |-> inv[i].ts, inv |-> i, price |-> inv[i].data.premium]]_vars

C12_Witness ==
  \E i \in Inv :
    /\ Done(i) /\ inv[i].action = "calc"
    /\ inv[i].result.statusCode = 200
    /\ inv[i].result.payload.premium = 1500
    /\ inv[i].result.payload.requestId = i /\ inv[i].result.payload.covers = i
    /\ \E rec \in calcTable : rec.inv = i /\ rec.price = 1500

\* C13: a sample invocation whose document response carries no policyPDF is over at once
\* with the document-missing error and not with a 200; it has issued no putObject and no
\* getSignedUrl, and the object storage holds nothing under its policy number.
C13_NoPdfNoUpload ==
  \A i \in Inv :
    (inv[i].action = "sample" /\ Has(inv[i].log, "doc", "nopdf"))
      => /\ Done(i)
         /\ inv[i].result.error = Err(MsgPdfMissing, 0)
         /\ inv[i].result.statusCode # 200
         /\ ~Has(inv[i].log, "putObject", "sent")
         /\ ~Has(inv[i].log, "signUrl", "sent")
         /\ inv[i].log[Len(inv[i].log)] = [call |-> "doc", ev |-> "nopdf"]
         /\ i \notin objects

C13_Witness ==
  \E i \in Inv :
    /\ Done(i) /\ inv[i].action = "sample"
    /\ Has(inv[i].log, "issue", "ok") /\ Has(inv[i].log, "doc", "nopdf")
    /\ inv[i].result.error = Err(MsgPdfMissing, 0)

\* C14: an invocation that has reached the dispatch (it issued a partner call, or ended
\* with one of the dispatch's own errors) made at least one OAuth request of its own, got
\* its token before its first partner call, and while it waits for a partner call the token
\* it holds is the one its own exchange returned, never one handed to another invocation.
C14_TokenPerInvocation ==
  \A i \in Inv :
    LET r == inv[i]
        dispatched ==
          \/ \E c \in PartnerApiCalls : Has(r.log, c, "sent")
          \/ Done(i) /\ r.result.error.name \in {"Unknown action", "policy missing", "TypeError"}
    IN /\ dispatched
            => /\ Count(r.log, "oauth", "sent") >= 1
               /\ Count(r.log, "oauth", "ok") = 1
               /\ \A k \in 1..Len(r.log) :
                    (r.log[k].call \in PartnerApiCalls /\ r.log[k].ev = "sent")
                      => \E a \in 1..(k - 1) : r.log[a] = [call |-> "oauth", ev |-> "ok"]
       /\ r.pc \in {"quote_wait", "issue_wait", "pay_wait", "create_wait", "doc_wait",
                    "legacy_wait", "pdfdoc_wait"}
            => /\ r.token = TokenOf(i, Count(r.log, "oauth", "sent"))
               /\ \A j \in Inv \ {i} : \A k \in 0..RETRIES : r.token # TokenOf(j, k)
               /\ \A j \in Inv \ {i} : inv[j].token # r.token

C14_Witness ==
  \E i, j \in Inv :
    /\ i # j
    /\ inv[i].pc = "pay_wait" /\ inv[j].pc = "pdfdoc_wait"
    /\ inv[i].token = TokenOf(i, 1) /\ inv[j].token = TokenOf(j, 2)

\* C15: buildAccidentRequest returns as many covers as it was given, in the same order;
\* a sumInsured that is one of the tiers 50000, 100000, 250000, 500000, as a number or as
\* its decimal string, comes out as that number, and a sumInsured of 0, null, undefined
\* (absent) or "abc" comes out as 50000.
C15_SumInsuredMapping ==
  req.pc = "built"
    => /\ Len(req.out) = Len(req.covers)
       /\ \A k \in 1..Len(req.covers) :
            LET v == req.covers[k].sumInsured
                o == req.out[k].sumInsured
            IN /\ \A t \in Tiers : (v = Num(t) \/ v = Str(TierText[t])) => o = Num(t)
               /\ v \in {Num(0), Null, Undefined, Str(<<"a", "b", "c">>)} => o = Num(50000)

C15_Witness ==
  /\ req.pc = "built"
  /\ req.covers = <<[sumInsured |-> Str(TierText[250000])], [sumInsured |-> Null]>>
  /\ req.out = <<[sumInsured |-> Num(250000)], [sumInsured |-> Num(50000)]>>

\* C16: in a pay invocation the calls after the token come one at a time in the order
\* issuePolicy, payInstallment, insurance_payments write, each issued only after the one
\* before it succeeded; the installment request has index 1, the policy number issuePolicy
\* returned and its premium as amount; the 200 response comes only after all three; when a
\* call fails nothing is issued after it (no compensating call) and there is no 200.
C16_PayStepsInOrder ==
  \A i \in Inv :
    (inv[i].entry = "handler" /\ inv[i].action = "pay")
      => LET r == inv[i]
             steps == <<[call |-> "issue", ev |-> "sent"], [call |-> "issue", ev |-> "ok"],
                        [call |-> "pay", ev |-> "sent"], [call |-> "pay", ev |-> "ok"],
                        [call |-> "dbPay", ev |-> "sent"], [call |-> "dbPay", ev |-> "ok"]>>
             got == Has(r.log, "oauth", "ok")
             at == IF got THEN CHOOSE a \in 1..Len(r.log) : r.log[a] = [call |-> "oauth", ev |-> "ok"]
                   ELSE Len(r.log)
             tail == SubSeq(r.log, at + 1, Len(r.log))
             failedLast == /\ Len(tail) > 0
                           /\ tail[Len(tail)].ev = "fail"
         IN /\ ~got => \A c \in {"issue", "pay", "dbPay"} : ~Has(r.log, c, "sent")
            /\ Len(tail) <= Len(steps)
            /\ \A k \in 1..Len(tail) :
                 \/ tail[k] = steps[k]
                 \/ k = Len(tail) /\ tail[k] = [call |-> steps[k].call, ev |-> "fail"]
                                  /\ steps[k].ev = "ok"
            /\ failedLast => Done(i) /\ r.result.statusCode # 200
            /\ r.result.statusCode = 200 => tail = steps
            /\ r.pc = "pay_wait"
                 => /\ r.data.policyNumber = i
                    /\ r.payReq = [policyNumber |-> r.data.policyNumber, installment |-> 1,
                                   amount |-> r.data.premium]

C16_Witness ==
  \E i, j \in Inv :
    /\ inv[i].action = "pay" /\ inv[i].pc = "pay_wait"
    /\ inv[i].payReq = [policyNumber |-> i, installment |-> 1, amount |-> 1500]
    /\ inv[j].action = "pay" /\ Done(j)
    /\ Has(inv[j].log, "issue", "ok") /\ Has(inv[j].log, "pay", "fail")

\* C17: a pdfHandler invocation never throws to its caller. With an empty trailing segment
\* (nothing left once ".pdf" is taken out) it returns 400 with an error and calls nothing;
\* when the partner response has no policyPDF it returns 404; when a document came it
\* returns 200 with the PDF headers; when the driver initialisation, the session, the
\* token exchange or the partner call failed it returns 500 with an error.
C17_PdfHandlerEnvelope ==
  [][\A i \in Inv :
       /\ \A seg \in {<<>>, <<".pdf">>} :
            pdfHandler(i, seg)
              => /\ inv'[i].result = Response(400, Err("Policy number is required", 0), NoPayload)
                 /\ inv'[i].log = <<>>
                 /\ UNCHANGED globals
       /\ inv'[i].entry = "pdfHandler"
            => LET r == inv'[i]
                   failed ==
                     \/ Has(r.log, "iam", "fail") \/ Has(r.log, "iam", "empty")
                     \/ Has(r.log, "ready", "false") \/ Has(r.log, "ready", "throws")
                     \/ Has(r.log, "session", "fail")
                     \/ Count(r.log, "oauth", "fail") = RETRIES
                     \/ Has(r.log, "doc", "fail")
               IN /\ r.result.kind # "thrown"
                  /\ (r.pc = "done") = (r.result.kind = "returned")
                  /\ r.pc = "done"
                       => /\ r.result.statusCode \in {200, 400, 404, 500}
                          /\ r.result.statusCode # 200 => r.result.error.name # ""
                          /\ r.result.statusCode = 400 => r.log = <<>>
                          /\ Has(r.log, "doc", "nopdf")
                               => r.result = Response(404, Err("PDF not found", 0), NoPayload)
                          /\ Has(r.log, "doc", "ok")
                               => r.result = Response(200, NoErr, [NoPayload EXCEPT !.pdf = TRUE])
                          /\ failed => r.result.statusCode = 500]_vars

C17_Witness ==
  \E i, j \in Inv :
    /\ i # j
    /\ inv[i].entry = "pdfHandler" /\ Done(i)
    /\ Count(inv[i].log, "oauth", "fail") = RETRIES
    /\ inv[i].result = Response(500, Err("oauth failed", RETRIES), NoPayload)
    /\ inv[j].entry = "pdfHandler" /\ Done(j)
    /\ Has(inv[j].log, "doc", "ok") /\ inv[j].result.statusCode = 200 /\ inv[j].result.payload.pdf

\* C18: an invocation that has got a driver from getDriver, at a moment when no readiness
\* check is in progress, holds a driver whose ready() has returned true; a driver whose
\* readiness check failed is not handed out from the cache.
C18_OnlyReadyDriver ==
  \A i \in Inv :
    (inv[i].pc \notin {"idle", "iam_wait", "ready_wait", "done"}
       /\ \A j \in Inv : inv[j].pc # "ready_wait")
      => inv[i].driver \in readyOk

\* C19: an invocation issues the metadata request at most once; when that request fails
\* (error, timeout, or a response without access_token) the invocation ends in that step
\* with the token error as a 500, no further request is made, and driverInstance is left
\* as it was; an invocation starting while driverInstance is unset issues the request anew.
C19_IamFailFast ==
  [][\A i \in Inv :
       /\ Count(inv'[i].log, "iam", "sent") <= 1
       /\ \A res \in {"fail", "timeout", "empty"} :
            fetchIamTokenReply(i, res)
              => /\ inv'[i].pc = "done"
                 /\ inv'[i].result = Response(500, Err(MsgIamFailed, 0), NoPayload)
                 /\ iamFetches' = iamFetches
                 /\ driverInstance' = driverInstance /\ driversBuilt' = driversBuilt
       /\ (inv[i].pc = "iam_wait" /\ inv'[i].pc = "done" /\ driversBuilt = 0)
            => driverInstance' = 0
       /\ (inv[i].pc = "idle" /\ inv'[i].pc \notin {"idle", "done"} /\ driverInstance = 0)
            => /\ inv'[i].pc = "iam_wait"
               /\ iamFetches' = iamFetches + 1]_vars

C19_Witness ==
  \E i, j \in Inv :
    /\ i < j
    /\ Done(i) /\ Has(inv[i].log, "iam", "fail")
    /\ inv[i].result = Response(500, Err(MsgIamFailed, 0), NoPayload)
    /\ Count(inv[i].log, "iam", "sent") = 1
    /\ Has(inv[j].log, "iam", "token") /\ Has(inv[j].log, "ready", "true")
    /\ iamFetches = 2 /\ driverInstance = 1 /\ readyOk = {1}

\* C20: each table holds as many records as successful writes were made to it: no write of
\* one invocation replaces the record of another, whatever timestamps the writes got.
C20_AppendOnly ==
  /\ Cardinality(calcTable) = calcWrites
  /\ Cardinality(payTable) = payWrites

====
